---- MODULE Spec2Model ----
(***************************************************************************)
(* Model of the NanoVNA driver, NanoVNASaver/Hardware/NanoVNA.py.          *)
(*                                                                         *)
(* Text is modelled as a sequence of one-character strings, a command as   *)
(* the tuple of the fields its f-string formats, a version as the triple   *)
(* the Version class parses.  The serial interface, the command executor   *)
(* (VNA.exec_command) and the base class live outside this file; they are  *)
(* modelled by the outcomes the driver can observe from them.              *)
(***************************************************************************)
EXTENDS Integers, Sequences, FiniteSets, TLC

\* ------------------------------------------------------------------ bounds
MaxResp == 2       \* longest device response, in lines, the model draws
MaxPoints == 2     \* largest datapoints value of a session
NumThreads == 2    \* threads of the application that may call the driver

Threads == 1..NumThreads
MainThread == 1

\* ------------------------------------------------------- program constants
screenwidth == 320
screenheight == 240
CaptureTimeout == 4
InitStart == 27000000
InitStop == 30000000

\* ------------------------------------------------------------------- text
SP == " "
Chars == {"a", "b", "c", "d", "e", SP}

\* str.split(): the maximal runs of non-whitespace characters, in order
RECURSIVE SplitFrom(_, _, _)
SplitFrom(line, i, cur) ==
    IF i > Len(line)
    THEN IF cur = <<>> THEN <<>> ELSE <<cur>>
    ELSE IF line[i] = SP
         THEN IF cur = <<>>
              THEN SplitFrom(line, i + 1, <<>>)
              ELSE <<cur>> \o SplitFrom(line, i + 1, <<>>)
         ELSE SplitFrom(line, i + 1, Append(cur, line[i]))

split(line) == SplitFrom(line, 1, <<>>)

\* f"{x} {y}"
JoinPair(x, y) == x \o <<SP>> \o y

\* response lines a device may send to the scan command: four fields,
\* three fields with uneven spacing, five fields with uneven spacing
Line4 == <<"a", SP, "b", SP, "c", SP, "d">>
Line3 == <<SP, "a", SP, SP, "b", SP, "c">>
Line5 == <<"e", SP, "d", SP, SP, "c", SP, "b", SP, "a", SP>>
Lines == {Line4, Line3, Line5}

RECURSIVE SeqsUpTo(_, _)
SeqsUpTo(S, n) ==
    IF n = 0 THEN {<<>>}
    ELSE LET shorter == SeqsUpTo(S, n - 1)
         IN shorter \cup {Append(s, x) : s \in {q \in shorter : Len(q) = n - 1}, x \in S}

Responses == SeqsUpTo(Lines, MaxResp)

\* --------------------------------------------------------------- versions
\* Version(version_string): major, minor, revision; a suffix is kept as note
Notes == {"", "-dirty"}
AllVersions == [major : 0..1, minor : {0, 1, 2, 6, 7, 8}, revision : 0..2, note : Notes]
SessionVersions ==
    {[major |-> 0, minor |-> 1, revision |-> 2, note |-> ""],
     [major |-> 0, minor |-> 2, revision |-> 0, note |-> ""],
     [major |-> 0, minor |-> 7, revision |-> 1, note |-> "-dirty"]}

Version(major, minor, revision) ==
    [major |-> major, minor |-> minor, revision |-> revision, note |-> ""]

\* version >= other, the note ignored
VersionGE(v, o) ==
    \/ v.major > o.major
    \/ v.major = o.major /\ v.minor > o.minor
    \/ v.major = o.major /\ v.minor = o.minor /\ v.revision >= o.revision

\* ------------------------------------------------- double-precision floats
\* Python's float is an IEEE-754 double.  A double of the magnitudes met
\* here is held exactly as a sign and a fixed-point magnitude with IntBits
\* bits before the binary point and at least FracBits after it.  The
\* magnitude is a tuple of limbs of LimbBits bits, most significant first.
\* Every operation computes the exact result and rounds it to MantBits
\* significant bits, to nearest, ties to even.
MantBits == 53
IntBits == 26
FracBits == 62
LimbBits == 11

NumLimbs == (IntBits + FracBits + LimbBits - 1) \div LimbBits
LimbBase == 2^LimbBits
FixWidth == NumLimbs * LimbBits

Abs(k) == IF k < 0 THEN -k ELSE k

\* bit i of a magnitude, bit 1 the most significant
BitOf(limbs, i) ==
    (limbs[((i - 1) \div LimbBits) + 1] \div 2^(LimbBits - 1 - ((i - 1) % LimbBits))) % 2

\* is any bit from index i on set
LowNonzero(limbs, i) ==
    \E j \in 1..NumLimbs :
        IF (j - 1) * LimbBits + 1 >= i THEN limbs[j] # 0
        ELSE IF j * LimbBits >= i THEN limbs[j] % 2^(j * LimbBits - i + 1) # 0
        ELSE FALSE

\* the magnitude with every bit below index last cleared
Kept(limbs, last) ==
    [j \in 1..NumLimbs |->
        IF j * LimbBits <= last THEN limbs[j]
        ELSE IF (j - 1) * LimbBits >= last THEN 0
        ELSE limbs[j] - (limbs[j] % 2^(j * LimbBits - last))]

\* the magnitude with only bit pos set
UnitAt(pos) ==
    [j \in 1..NumLimbs |->
        IF j = ((pos - 1) \div LimbBits) + 1
        THEN 2^(LimbBits - 1 - ((pos - 1) % LimbBits))
        ELSE 0]

\* index of the leading one, 0 when there is none
Lead(limbs) ==
    IF \A j \in 1..NumLimbs : limbs[j] = 0 THEN 0
    ELSE LET j == CHOOSE j \in 1..NumLimbs :
                      limbs[j] # 0 /\ \A i \in 1..(j - 1) : limbs[i] = 0
             b == CHOOSE b \in 1..LimbBits : limbs[j] \div 2^(LimbBits - b) = 1
         IN (j - 1) * LimbBits + b

RECURSIVE AddFrom(_, _, _, _)
AddFrom(a, b, j, carry) ==
    IF j = 0 THEN <<>>
    ELSE LET t == a[j] + b[j] + carry
         IN Append(AddFrom(a, b, j - 1, t \div LimbBase), t % LimbBase)

\* a - b for a >= b
RECURSIVE SubFrom(_, _, _, _)
SubFrom(a, b, j, borrow) ==
    IF j = 0 THEN <<>>
    ELSE LET t == a[j] - b[j] - borrow
         IN Append(SubFrom(a, b, j - 1, IF t < 0 THEN 1 ELSE 0), t % LimbBase)

\* product with a small natural, from the low end
RECURSIVE MulFrom(_, _, _, _)
MulFrom(limbs, k, j, carry) ==
    IF j = 0 THEN <<>>
    ELSE LET t == limbs[j] * k + carry
         IN Append(MulFrom(limbs, k, j - 1, t \div LimbBase), t % LimbBase)

\* long division by a small positive integer, from the high end
RECURSIVE DivFrom(_, _, _, _)
DivFrom(limbs, m, j, rem) ==
    IF j > NumLimbs THEN [q |-> <<>>, rem |-> rem]
    ELSE LET cur == rem * LimbBase + limbs[j]
             rest == DivFrom(limbs, m, j + 1, cur % m)
         IN [q |-> <<cur \div m>> \o rest.q, rem |-> rest.rem]

MagGE(a, b) ==
    \/ \A j \in 1..NumLimbs : a[j] = b[j]
    \/ \E j \in 1..NumLimbs : a[j] > b[j] /\ \A i \in 1..(j - 1) : a[i] = b[i]

\* round to nearest, ties to even, at MantBits significant bits; sticky
\* tells that the exact value has nonzero bits below the magnitude
RoundNearestEven(limbs, sticky) ==
    LET p == Lead(limbs)
        last == p + MantBits - 1
    IN IF p = 0 \/ last >= FixWidth THEN limbs
       ELSE IF /\ BitOf(limbs, last + 1) = 1
               /\ \/ sticky
                  \/ LowNonzero(limbs, last + 2)
                  \/ BitOf(limbs, last) = 1
            THEN AddFrom(Kept(limbs, last), UnitAt(last), NumLimbs, 0)
            ELSE Kept(limbs, last)

\* limb j of float(k) for a natural k < 2^IntBits
RECURSIVE IntLimb(_, _, _)
IntLimb(k, j, b) ==
    IF b = 0 THEN 0
    ELSE LET i == (j - 1) * LimbBits + b
         IN 2 * IntLimb(k, j, b - 1)
            + (IF i <= IntBits THEN (k \div 2^(IntBits - i)) % 2 ELSE 0)

\* float(k) for an int k, |k| < 2^IntBits: exact
FromInt(k) ==
    [neg |-> k < 0, mag |-> [j \in 1..NumLimbs |-> IntLimb(Abs(k), j, LimbBits)]]

\* x / y for floats x = float(d), y = float(m), m > 0
FloatDiv(d, m) ==
    LET r == DivFrom(FromInt(d).mag, m, 1, 0)
    IN [neg |-> d < 0, mag |-> RoundNearestEven(r.q, r.rem # 0)]

\* i * x for an int i >= 0 and a float x
FloatMulInt(i, x) ==
    [neg |-> x.neg, mag |-> RoundNearestEven(MulFrom(x.mag, i, NumLimbs, 0), FALSE)]

\* x + y
FloatAdd(x, y) ==
    IF x.neg = y.neg
    THEN [neg |-> x.neg,
          mag |-> RoundNearestEven(AddFrom(x.mag, y.mag, NumLimbs, 0), FALSE)]
    ELSE IF MagGE(x.mag, y.mag)
         THEN [neg |-> x.neg,
               mag |-> RoundNearestEven(SubFrom(x.mag, y.mag, NumLimbs, 0), FALSE)]
         ELSE [neg |-> y.neg,
               mag |-> RoundNearestEven(SubFrom(y.mag, x.mag, NumLimbs, 0), FALSE)]

RECURSIVE IntPart(_, _)
IntPart(limbs, i) == IF i = 0 THEN 0 ELSE 2 * IntPart(limbs, i - 1) + BitOf(limbs, i)

\* round(x): the nearest int, a tie going to the even one
round(x) ==
    LET n == IntPart(x.mag, IntBits)
        r == IF /\ BitOf(x.mag, IntBits + 1) = 1
                /\ (LowNonzero(x.mag, IntBits + 2) \/ n % 2 = 1)
             THEN n + 1
             ELSE n
    IN IF x.neg THEN -r ELSE r

\* ------------------------------------------------------------ pixel decode
\* A numpy uint32 is held as two 16-bit halves; + and << wrap modulo 2^32.
Half == 2^16

U32(hi, lo) == [hi |-> hi, lo |-> lo]

RECURSIVE BitAnd(_, _)
BitAnd(a, b) ==
    IF a = 0 \/ b = 0 THEN 0
    ELSE 2 * BitAnd(a \div 2, b \div 2) + (a % 2) * (b % 2)

\* x & mask, mask below 2^16
And32(x, mask) == U32(0, BitAnd(x.lo, mask))

\* x << k, k <= 8
Shl32(x, k) ==
    LET wide == x.lo * 2^k
    IN U32((x.hi * 2^k + wide \div Half) % Half, wide % Half)

Add32(x, y) ==
    LET low == x.lo + y.lo
    IN U32((x.hi + y.hi + low \div Half) % Half, low % Half)

\* struct.unpack(">...H"): one big-endian unsigned 16-bit value
UnpackH(hi, lo) == hi * 256 + lo

\* the expansion with the green field shifted one place too far
ArgbGreenHigh(px) ==
    LET rgb == U32(0, px)
    IN Add32(Add32(Add32(U32(65280, 0),
                         Shl32(And32(rgb, 63488), 8)),
                   Shl32(And32(rgb, 2016), 6)),
             Shl32(And32(rgb, 31), 3))

\* 0xFF000000 + ((px & 0xF800) << 8) + ((px & 0x07E0) << 5) + ((px & 0x001F) << 3)
Argb(px) ==
    LET rgb == U32(0, px)
    IN Add32(Add32(Add32(U32(65280, 0),
                         Shl32(And32(rgb, 63488), 8)),
                   Shl32(And32(rgb, 2016), 5)),
             Shl32(And32(rgb, 31), 3))

\* the four bytes of a uint32: alpha, red, green, blue
Bytes32(x) == <<x.hi \div 256, x.hi % 256, x.lo \div 256, x.lo % 256>>

FrameBytes == screenwidth * screenheight * 2
FramePixels == screenwidth * screenheight

\* ------------------------------------------------------------------ state
VARIABLES
    version,        \* self.version
    features,       \* self.features
    sweep_method,   \* self.sweep_method
    start,          \* self.start
    stop,           \* self.stop
    datapoints,     \* self.datapoints (attribute of the base class)
    sweepdata,      \* self._sweepdata: sequence of pairs <<channel 0, channel 1>>
    connected,      \* self.connected()
    timeout,        \* self.serial.timeout
    lock,           \* self.serial.lock: 0 when free, else the holding thread
    pc,             \* per thread: position inside getScreenshot, "idle" outside
    saved,          \* per thread: the local variable timeout of its last capture
    image,          \* per thread: the local variable image_data of its last capture
    shot,           \* per thread: how its last getScreenshot ended
    trace,          \* per thread: interface events of its last capture, in order
    entry,          \* per thread: serial.timeout when its last capture started
    call,           \* the last driver call of the main thread and its outcome
    lastPairs       \* pairs cached by the most recent scan-mask "data 0" read

vars == <<version, features, sweep_method, start, stop, datapoints, sweepdata,
          connected, timeout, lock, pc, saved, image, shot, trace, entry,
          call, lastPairs>>

driver == <<version, features, sweep_method, start, stop, datapoints, sweepdata>>
threadVars == <<pc, saved, image, shot, trace, entry>>
ghost == <<lastPairs>>

\* values the model draws
SweepRanges == {<<1000, 2000>>, <<2000, 1000>>}
FreqCases == ((0..3) \cup {30, 1000}) \X ((0..3) \cup {29, 2000}) \X {1, 2, 3, 5, 15}
SerialTimeouts == {1, 2}
Selectors == {"data 0", "data 1", "data 2"}
ShortReads == {0, FrameBytes - 2}
SamplePixels == {<<248, 0>>}

NoImage == [n |-> 0, hi |-> 0, lo |-> 0]
NoShot == [kind |-> "none", exc |-> "none", pixels |-> 0, argb |-> U32(0, 0)]
NoCall == [op |-> "none", arg |-> <<>>, issued |-> <<>>, written |-> <<>>,
           log |-> <<>>,
           resp |-> <<>>, ret |-> "None", exc |-> "none", result |-> <<>>,
           prev |-> [op |-> "none", arg |-> <<>>, ret |-> "None", resp |-> <<>>]]

\* NanoVNA.__init__
InitDriver ==
    /\ version \in SessionVersions
    /\ features = {}
    /\ sweep_method = "sweep"
    /\ start = InitStart
    /\ stop = InitStop
    /\ datapoints \in 1..MaxPoints
    /\ sweepdata = <<>>

InitRest ==
    /\ connected = TRUE
    /\ timeout \in SerialTimeouts
    /\ lock = 0
    /\ pc = [t \in Threads |-> "idle"]
    /\ saved = [t \in Threads |-> 0]
    /\ image = [t \in Threads |-> NoImage]
    /\ shot = [t \in Threads |-> NoShot]
    /\ trace = [t \in Threads |-> <<>>]
    /\ entry = [t \in Threads |-> 0]
    /\ call = NoCall
    /\ lastPairs = <<>>

Init == InitDriver /\ InitRest

\* ----------------------------------------------------- command executor
\* VNA.exec_command(command): writes the command, then yields the response
\* lines; it raises when the interface is not connected (before the write)
\* or when reading the response fails (after the lines already yielded).
ExecOutcomes(S) == [lines : S, fail : BOOLEAN]

exec_command(command, out) ==
    IF ~connected
    THEN [written |-> <<>>, lines |-> <<>>, exc |-> "CommunicationError"]
    ELSE [written |-> <<command>>, lines |-> out.lines,
          exc |-> IF out.fail THEN "CommunicationError" ELSE "none"]

\* the main thread is between calls and leaves its last screenshot behind
MainIdle == pc[MainThread] = "idle"

ForgetShot ==
    /\ shot' = [shot EXCEPT ![MainThread] = NoShot]
    /\ trace' = [trace EXCEPT ![MainThread] = <<>>]
    /\ entry' = [entry EXCEPT ![MainThread] = 0]
    /\ saved' = [saved EXCEPT ![MainThread] = 0]
    /\ image' = [image EXCEPT ![MainThread] = NoImage]
    /\ UNCHANGED pc

\* ------------------------------------------------------------ resetSweep
\* resetSweep sending resume before the sweep command
ResetCommandsResumeFirst(s, e, n) == << <<"resume">>, <<"sweep", s, e, n>> >>

\* the two commands of resetSweep, in the order of its two statements
ResetCommands(s, e, n) == << <<"sweep", s, e, n>>, <<"resume">> >>

\* list(self.exec_command(c)) as interface events: the write, then the
\* response read to its end unless the executor raised
Exchange(c, r) ==
    (IF r.written = <<>> THEN <<>> ELSE << <<"write", c>> >>)
        \o (IF r.exc = "none" THEN << <<"drained", c>> >> ELSE <<>>)

\* a resetSweep that stores its range like setSweep does
resetSweepStoring(s, e) ==
    /\ MainIdle
    /\ lock = 0
    /\ start' = s
    /\ stop' = e
    /\ \E out1 \in ExecOutcomes({<<>>}), out2 \in ExecOutcomes({<<>>}) :
          LET cmds == ResetCommands(s, e, datapoints)
              r1 == exec_command(cmds[1], out1)
              r2 == exec_command(cmds[2], out2)
              ok1 == r1.exc = "none"
          IN call' = [NoCall EXCEPT
                        !.op = "resetSweep",
                        !.arg = <<s, e>>,
                        !.issued = IF ok1 THEN cmds ELSE <<cmds[1]>>,
                        !.written = IF ok1 THEN r1.written \o r2.written ELSE r1.written,
                        !.log = IF ok1 THEN Exchange(cmds[1], r1) \o Exchange(cmds[2], r2)
                                ELSE Exchange(cmds[1], r1),
                        !.ret = IF ok1 /\ r2.exc = "none" THEN "None" ELSE "raise",
                        !.exc = IF ok1 THEN r2.exc ELSE r1.exc]
    /\ ForgetShot
    /\ UNCHANGED <<version, features, sweep_method, datapoints, sweepdata,
                   connected, timeout, lock, ghost>>

\* a resetSweep that also puts the driver back on the sweep command
resetSweepHard(s, e) ==
    /\ MainIdle
    /\ lock = 0
    /\ sweep_method' = "sweep"
    /\ \E out1 \in ExecOutcomes({<<>>}), out2 \in ExecOutcomes({<<>>}) :
          LET cmds == ResetCommands(s, e, datapoints)
              r1 == exec_command(cmds[1], out1)
              r2 == exec_command(cmds[2], out2)
              ok1 == r1.exc = "none"
          IN call' = [NoCall EXCEPT
                        !.op = "resetSweep",
                        !.arg = <<s, e>>,
                        !.issued = IF ok1 THEN cmds ELSE <<cmds[1]>>,
                        !.written = IF ok1 THEN r1.written \o r2.written ELSE r1.written,
                        !.log = IF ok1 THEN Exchange(cmds[1], r1) \o Exchange(cmds[2], r2)
                                ELSE Exchange(cmds[1], r1),
                        !.ret = IF ok1 /\ r2.exc = "none" THEN "None" ELSE "raise",
                        !.exc = IF ok1 THEN r2.exc ELSE r1.exc]
    /\ ForgetShot
    /\ UNCHANGED <<version, features, start, stop, datapoints, sweepdata,
                   connected, timeout, lock, ghost>>

resetSweep(s, e) ==
    /\ MainIdle
    /\ lock = 0
    /\ \E out1 \in ExecOutcomes({<<>>}), out2 \in ExecOutcomes({<<>>}) :
          LET cmds == ResetCommands(s, e, datapoints)
              c1 == cmds[1]
              c2 == cmds[2]
              r1 == exec_command(c1, out1)
              r2 == exec_command(c2, out2)
              ok1 == r1.exc = "none"
          IN call' = [NoCall EXCEPT
                        !.op = "resetSweep",
                        !.arg = <<s, e>>,
                        !.issued = IF ok1 THEN <<c1, c2>> ELSE <<c1>>,
                        !.written = IF ok1 THEN r1.written \o r2.written ELSE r1.written,
                        !.log = IF ok1 THEN Exchange(c1, r1) \o Exchange(c2, r2)
                                ELSE Exchange(c1, r1),
                        !.ret = IF ok1 /\ r2.exc = "none" THEN "None" ELSE "raise",
                        !.exc = IF ok1 THEN r2.exc ELSE r1.exc]
    /\ ForgetShot
    /\ UNCHANGED <<driver, connected, timeout, lock, ghost>>

\* -------------------------------------------------------------- setSweep
\* setSweep issuing a scan command under scan_mask as well
SweepCommandsScanAlways(method, s, e, n) ==
    IF method = "sweep" THEN << <<"sweep", s, e, n>> >>
    ELSE << <<"scan", s, e, n>> >>

\* the commands setSweep hands to the executor under a sweep method
SweepCommands(method, s, e, n) ==
    IF method = "sweep" THEN << <<"sweep", s, e, n>> >>
    ELSE IF method = "scan" THEN << <<"scan", s, e, n>> >>
    ELSE <<>>

\* a setSweep that also drops the cached pairs of the previous cycle
setSweepClearing(s, e) ==
    /\ MainIdle
    /\ start' = s
    /\ stop' = e
    /\ sweepdata' = <<>>
    /\ LET cmds == SweepCommands(sweep_method, s, e, datapoints)
       IN IF cmds = <<>>
          THEN call' = [NoCall EXCEPT !.op = "setSweep", !.arg = <<s, e>>]
          ELSE /\ lock = 0
               /\ \E out \in ExecOutcomes({<<>>}) :
                     LET r == exec_command(cmds[1], out)
                     IN call' = [NoCall EXCEPT
                                   !.op = "setSweep",
                                   !.arg = <<s, e>>,
                                   !.issued = cmds,
                                   !.written = r.written,
                                   !.ret = IF r.exc = "none" THEN "None" ELSE "raise",
                                   !.exc = r.exc]
    /\ ForgetShot
    /\ UNCHANGED <<version, features, sweep_method, datapoints,
                   connected, timeout, lock, lastPairs>>

setSweep(s, e) ==
    /\ MainIdle
    /\ start' = s
    /\ stop' = e
    /\ LET cmds == SweepCommands(sweep_method, s, e, datapoints)
       IN IF cmds = <<>>
          THEN call' = [NoCall EXCEPT !.op = "setSweep", !.arg = <<s, e>>]
          ELSE /\ lock = 0
               /\ \E out \in ExecOutcomes({<<>>}) :
                     LET r == exec_command(cmds[1], out)
                     IN call' = [NoCall EXCEPT
                                   !.op = "setSweep",
                                   !.arg = <<s, e>>,
                                   !.issued = cmds,
                                   !.written = r.written,
                                   !.ret = IF r.exc = "none" THEN "None" ELSE "raise",
                                   !.exc = r.exc]
    /\ ForgetShot
    /\ UNCHANGED <<version, features, sweep_method, datapoints, sweepdata,
                   connected, timeout, lock, lastPairs>>

\* --------------------------------------------------------- read_features
\* VNA.read_features of the base class: no effect on the sweep method or
\* on the two scan features
BaseFeatures(f) == f

\* read_features with the thresholds taken as exclusive bounds
SelectMethodExclusive(v, method) ==
    IF VersionGE(v, Version(0, 7, 1)) /\ ~VersionGE(Version(0, 7, 1), v)
    THEN [method |-> "scan_mask", add |-> {"Scan mask command"}]
    ELSE IF VersionGE(v, Version(0, 2, 0)) /\ ~VersionGE(Version(0, 2, 0), v)
         THEN [method |-> "scan", add |-> {"Scan command"}]
         ELSE [method |-> method, add |-> {}]

\* the branch read_features takes for a version, given the method so far
SelectMethod(v, method) ==
    IF VersionGE(v, Version(0, 7, 1))
    THEN [method |-> "scan_mask", add |-> {"Scan mask command"}]
    ELSE IF VersionGE(v, Version(0, 2, 0))
         THEN [method |-> "scan", add |-> {"Scan command"}]
         ELSE [method |-> method, add |-> {}]

read_features ==
    /\ MainIdle
    /\ LET sel == SelectMethod(version, sweep_method)
       IN /\ features' = BaseFeatures(features \cup sel.add)
          /\ sweep_method' = sel.method
    /\ call' = [NoCall EXCEPT !.op = "read_features"]
    /\ ForgetShot
    /\ UNCHANGED <<version, start, stop, datapoints, sweepdata,
                   connected, timeout, lock, ghost>>

\* ------------------------------------------------------- readFrequencies
\* the list with the step taken over datapoints instead of datapoints - 1
FrequencyListOverPoints(s, e, n) ==
    LET step == FloatDiv(e - s, n)
    IN [k \in 1..n |-> round(FloatAdd(FromInt(s), FloatMulInt(k - 1, step)))]

\* [round(self.start + i * step) for i in range(self.datapoints)]
FrequencyList(s, e, n) ==
    LET step == FloatDiv(e - s, n - 1)
    IN [k \in 1..n |-> round(FloatAdd(FromInt(s), FloatMulInt(k - 1, step)))]

\* the scan-mask branch: dividing by datapoints - 1.0 = 0.0 raises
ScanMaskFrequencies(s, e, n) ==
    IF n - 1 = 0
    THEN [ret |-> "raise", exc |-> "ZeroDivisionError", result |-> <<>>]
    ELSE [ret |-> "list", exc |-> "none", result |-> FrequencyList(s, e, n)]

\* the ranges and datapoints a model run can hold, and the list for each:
\* computed once, looked up by the action
FrequencyInputs ==
    ((({InitStart} \cup {r[1] : r \in SweepRanges})
        \X ({InitStop} \cup {r[2] : r \in SweepRanges})) \X (1..MaxPoints))
FrequencyTable ==
    [x \in {<<y[1][1], y[1][2], y[2]>> : y \in FrequencyInputs} \cup FreqCases |->
        ScanMaskFrequencies(x[1], x[2], x[3])]

readFrequencies ==
    /\ MainIdle
    /\ IF sweep_method # "scan_mask"
       THEN \* VNA.readFrequencies of the base class asks the device
            /\ lock = 0
            /\ \E out \in ExecOutcomes({<<>>}) :
                  LET c == <<"frequencies">>
                      r == exec_command(c, out)
                  IN call' = [NoCall EXCEPT
                                !.op = "readFrequencies",
                                !.issued = <<c>>,
                                !.written = r.written,
                                !.ret = IF r.exc = "none" THEN "base" ELSE "raise",
                                !.exc = r.exc]
       ELSE LET f == FrequencyTable[<<start, stop, datapoints>>]
            IN call' = [NoCall EXCEPT
                          !.op = "readFrequencies",
                          !.ret = f.ret,
                          !.exc = f.exc,
                          !.result = f.result]
    /\ ForgetShot
    /\ UNCHANGED <<driver, connected, timeout, lock, ghost>>

\* ------------------------------------------------------------ readValues
\* the loop over the response lines: one pair per line, until a line has
\* fewer than four fields, where data[...] raises IndexError
RECURSIVE FillSweepdata(_, _, _)
FillSweepdata(lines, i, acc) ==
    IF i > Len(lines) THEN [data |-> acc, exc |-> "none"]
    ELSE LET data == split(lines[i])
         IN IF Len(data) < 4
            THEN [data |-> acc, exc |-> "IndexError"]
            ELSE FillSweepdata(lines, i + 1,
                     Append(acc, <<JoinPair(data[1], data[2]),
                                   JoinPair(data[3], data[4])>>))

\* the loop's outcome for each response of the model, computed once
FilledFrom == [lines \in Responses |-> FillSweepdata(lines, 1, <<>>)]

\* the selectors answered from the wrong member of each pair
ChannelValuesSwapped(value, data) ==
    IF value = "data 0"
    THEN [ret |-> "list", result |-> [i \in 1..Len(data) |-> data[i][1]]]
    ELSE IF value = "data 1"
         THEN [ret |-> "list", result |-> [i \in 1..Len(data) |-> data[i][1]]]
         ELSE [ret |-> "None", result |-> <<>>]

\* the value returned for a selector from the cached pairs
ChannelValues(value, data) ==
    IF value = "data 0"
    THEN [ret |-> "list", result |-> [i \in 1..Len(data) |-> data[i][1]]]
    ELSE IF value = "data 1"
         THEN [ret |-> "list", result |-> [i \in 1..Len(data) |-> data[i][2]]]
         ELSE [ret |-> "None", result |-> <<>>]

readValues(value) ==
    /\ MainIdle
    /\ IF sweep_method # "scan_mask"
       THEN \* VNA.readValues of the base class: what the device answers
            /\ lock = 0
            /\ \E out \in ExecOutcomes({<<>>}) :
                  LET c == <<value>>
                      r == exec_command(c, out)
                  IN call' = [NoCall EXCEPT
                                !.op = "readValues",
                                !.arg = <<value>>,
                                !.issued = <<c>>,
                                !.written = r.written,
                                !.ret = IF r.exc = "none" THEN "base" ELSE "raise",
                                !.exc = r.exc]
            /\ UNCHANGED <<sweepdata, ghost>>
       ELSE IF value = "data 0"
            THEN /\ lock = 0
                 /\ \E out \in ExecOutcomes(Responses) :
                       LET c == <<"scan", start, stop, datapoints, "0b110">>
                           r == exec_command(c, out)
                           f == FilledFrom[r.lines]
                           exc == IF f.exc # "none" THEN f.exc ELSE r.exc
                           v == ChannelValues(value, f.data)
                       IN /\ sweepdata' = f.data
                          /\ call' = [NoCall EXCEPT
                                        !.op = "readValues",
                                        !.arg = <<value>>,
                                        !.issued = <<c>>,
                                        !.written = r.written,
                                        !.resp = r.lines,
                                        !.ret = IF exc = "none" THEN v.ret ELSE "raise",
                                        !.exc = exc,
                                        !.result = IF exc = "none" THEN v.result ELSE <<>>]
                          /\ lastPairs' = f.data
            ELSE LET v == ChannelValues(value, sweepdata)
                 IN /\ call' = [NoCall EXCEPT
                                  !.op = "readValues",
                                  !.arg = <<value>>,
                                  !.ret = v.ret,
                                  !.result = v.result,
                                  !.prev = [op |-> call.op,
                                            arg |-> IF call.op = "readValues"
                                                    THEN call.arg ELSE <<>>,
                                            ret |-> call.ret,
                                            resp |-> call.resp]]
                    /\ UNCHANGED <<sweepdata, ghost>>
    /\ ForgetShot
    /\ UNCHANGED <<version, features, sweep_method, start, stop, datapoints,
                   connected, timeout, lock>>

\* ------------------------------------------ getScreenshot / _capture_data
\* One action per statement of _capture_data, named by its source line.
\* A serial call fails (serial.SerialException) whenever the port is not
\* open, and may fail at any time.
IoFails == IF connected THEN BOOLEAN ELSE {TRUE}

Goto(t, label) == pc' = [pc EXCEPT ![t] = label]
Event(t, e) == trace' = [trace EXCEPT ![t] = Append(@, e)]

\* an exception leaving the with block: the lock is released on the way out
RaiseInLock(t, exc) ==
    /\ lock' = 0
    /\ trace' = [trace EXCEPT ![t] = Append(@, "release")]
    /\ shot' = [shot EXCEPT ![t] = [NoShot EXCEPT !.exc = exc]]
    /\ Goto(t, "except")

\* a getScreenshot that starts its capture without asking connected()
getScreenshotUnchecked(t) ==
    /\ pc[t] = "idle"
    /\ trace' = [trace EXCEPT ![t] = <<>>]
    /\ entry' = [entry EXCEPT ![t] = 0]
    /\ shot' = [shot EXCEPT ![t] = NoShot]
    /\ Goto(t, "L49")
    /\ saved' = [saved EXCEPT ![t] = 0]
    /\ image' = [image EXCEPT ![t] = NoImage]
    /\ call' = IF t = MainThread THEN NoCall ELSE call
    /\ UNCHANGED <<driver, connected, timeout, lock, ghost>>

getScreenshot(t) ==
    /\ pc[t] = "idle"
    /\ trace' = [trace EXCEPT ![t] = <<>>]
    /\ entry' = [entry EXCEPT ![t] = 0]
    /\ IF ~connected
       THEN /\ shot' = [shot EXCEPT ![t] = [NoShot EXCEPT !.kind = "blank"]]
            /\ UNCHANGED pc
       ELSE /\ shot' = [shot EXCEPT ![t] = NoShot]
            /\ Goto(t, "L49")
    /\ saved' = [saved EXCEPT ![t] = 0]
    /\ image' = [image EXCEPT ![t] = NoImage]
    /\ call' = IF t = MainThread THEN NoCall ELSE call
    /\ UNCHANGED <<driver, connected, timeout, lock, ghost>>

L49(t) ==
    /\ pc[t] = "L49"
    /\ saved' = [saved EXCEPT ![t] = timeout]
    /\ entry' = [entry EXCEPT ![t] = timeout]
    /\ Goto(t, "L50")
    /\ UNCHANGED <<driver, connected, timeout, lock, image, shot, trace, call, ghost>>

\* a capture that enters its exchange without waiting for the lock
L50NoWait(t) ==
    /\ pc[t] = "L50"
    /\ lock' = t
    /\ Event(t, "acquire")
    /\ Goto(t, "L51")
    /\ UNCHANGED <<driver, connected, timeout, saved, image, shot, entry, call, ghost>>

L50(t) ==
    /\ pc[t] = "L50"
    /\ lock = 0
    /\ lock' = t
    /\ Event(t, "acquire")
    /\ Goto(t, "L51")
    /\ UNCHANGED <<driver, connected, timeout, saved, image, shot, entry, call, ghost>>

\* a capture that sends its command without draining the input first
L51NoDrain(t) ==
    /\ pc[t] = "L51"
    /\ Goto(t, "L52")
    /\ UNCHANGED <<lock, shot, trace>>
    /\ UNCHANGED <<driver, connected, timeout, saved, image, entry, call, ghost>>

L51(t) ==
    /\ pc[t] = "L51"
    /\ \E fail \in IoFails :
          IF fail
          THEN RaiseInLock(t, "SerialException")
          ELSE /\ Event(t, "drain")
               /\ Goto(t, "L52")
               /\ UNCHANGED <<lock, shot>>
    /\ UNCHANGED <<driver, connected, timeout, saved, image, entry, call, ghost>>

L52(t) ==
    /\ pc[t] = "L52"
    /\ saved' = [saved EXCEPT ![t] = timeout]
    /\ Goto(t, "L53")
    /\ UNCHANGED <<driver, connected, timeout, lock, image, shot, trace, entry, call, ghost>>

L53(t) ==
    /\ pc[t] = "L53"
    /\ \E fail \in IoFails :
          IF fail
          THEN RaiseInLock(t, "SerialException")
          ELSE /\ Event(t, "write")
               /\ Goto(t, "L54")
               /\ UNCHANGED <<lock, shot>>
    /\ UNCHANGED <<driver, connected, timeout, saved, image, entry, call, ghost>>

L54(t) ==
    /\ pc[t] = "L54"
    /\ \E fail \in IoFails :
          IF fail
          THEN RaiseInLock(t, "SerialException")
          ELSE /\ Event(t, "readline")
               /\ Goto(t, "L55")
               /\ UNCHANGED <<lock, shot>>
    /\ UNCHANGED <<driver, connected, timeout, saved, image, entry, call, ghost>>

L55(t) ==
    /\ pc[t] = "L55"
    /\ timeout' = CaptureTimeout
    /\ Event(t, "widen")
    /\ Goto(t, "L56")
    /\ UNCHANGED <<driver, connected, lock, saved, image, shot, entry, call, ghost>>

\* serial.read(n): n bytes, fewer when the timeout expires first
L56(t) ==
    /\ pc[t] = "L56"
    /\ \E fail \in IoFails :
          IF fail
          THEN /\ RaiseInLock(t, "SerialException")
               /\ UNCHANGED image
          ELSE /\ \/ \E n \in ShortReads :
                        image' = [image EXCEPT ![t] = [NoImage EXCEPT !.n = n]]
                  \/ \E px \in SamplePixels :
                        image' = [image EXCEPT ![t] =
                                     [n |-> FrameBytes, hi |-> px[1], lo |-> px[2]]]
               /\ Event(t, "read")
               /\ Goto(t, "L58")
               /\ UNCHANGED <<lock, shot>>
    /\ UNCHANGED <<driver, connected, timeout, saved, entry, call, ghost>>

L58(t) ==
    /\ pc[t] = "L58"
    /\ timeout' = saved[t]
    /\ Event(t, "restore")
    /\ Goto(t, "exit")
    /\ UNCHANGED <<driver, connected, lock, saved, image, shot, entry, call, ghost>>

\* the end of the with block
ExitLock(t) ==
    /\ pc[t] = "exit"
    /\ lock' = 0
    /\ Event(t, "release")
    /\ Goto(t, "L59")
    /\ UNCHANGED <<driver, connected, timeout, saved, image, shot, entry, call, ghost>>

L59(t) ==
    /\ pc[t] = "L59"
    /\ timeout' = saved[t]
    /\ Event(t, "restore")
    /\ Goto(t, "L60")
    /\ UNCHANGED <<driver, connected, lock, saved, image, shot, entry, call, ghost>>

\* struct.unpack wants exactly width * height * 2 bytes; then the decode,
\* and getScreenshot wraps the pixels into the pixmap it returns
Decode(img) ==
    IF img.n # FrameBytes
    THEN [NoShot EXCEPT !.exc = "struct.error"]
    ELSE [NoShot EXCEPT !.kind = "pixmap",
                        !.pixels = img.n \div 2,
                        !.argb = Argb(UnpackH(img.hi, img.lo))]

L60(t) ==
    /\ pc[t] = "L60"
    /\ LET d == Decode(image[t])
       IN /\ shot' = [shot EXCEPT ![t] = d]
          /\ Goto(t, IF d.exc = "none" THEN "idle" ELSE "except")
    /\ UNCHANGED <<driver, connected, timeout, lock, saved, image, trace, entry,
                   call, ghost>>

\* the except clause of getScreenshot and what it lets through
Handle(exc) ==
    IF exc = "SerialException"
    THEN [NoShot EXCEPT !.kind = "blank"]
    ELSE [NoShot EXCEPT !.kind = "raised", !.exc = exc]

Except(t) ==
    /\ pc[t] = "except"
    /\ shot' = [shot EXCEPT ![t] = Handle(shot[t].exc)]
    /\ Goto(t, "idle")
    /\ UNCHANGED <<driver, connected, timeout, lock, saved, image, trace, entry,
                   call, ghost>>

\* ----------------------------------------------------------- environment
\* the port closes or opens between two calls of the application; while a
\* capture runs, a lost device shows as the failure of a serial call
unplug ==
    /\ \A t \in Threads : pc[t] = "idle"
    /\ connected
    /\ connected' = FALSE
    /\ UNCHANGED <<driver, timeout, lock, threadVars, call, ghost>>

replug ==
    /\ \A t \in Threads : pc[t] = "idle"
    /\ ~connected
    /\ connected' = TRUE
    /\ UNCHANGED <<driver, timeout, lock, threadVars, call, ghost>>

\* ---------------------------------------------------------- specification
Next ==
    \/ \E r \in SweepRanges : setSweep(r[1], r[2])
    \/ \E r \in SweepRanges : resetSweep(r[1], r[2])
    \/ read_features
    \/ readFrequencies
    \/ \E value \in Selectors : readValues(value)
    \/ getScreenshot(MainThread)
    \/ L49(MainThread)
    \/ L50(MainThread)
    \/ L51(MainThread)
    \/ L52(MainThread)
    \/ L53(MainThread)
    \/ L54(MainThread)
    \/ L55(MainThread)
    \/ L56(MainThread)
    \/ L58(MainThread)
    \/ ExitLock(MainThread)
    \/ L59(MainThread)
    \/ L60(MainThread)
    \/ Except(MainThread)
    \/ unplug
    \/ replug

Spec == Init /\ [][Next]_vars

\* ------------------------------------------------- feature negotiation
\* every version string, straight after construction; read_features alone
InitFeatures ==
    /\ version \in AllVersions
    /\ features = {}
    /\ sweep_method = "sweep"
    /\ start = InitStart
    /\ stop = InitStop
    /\ datapoints \in 1..MaxPoints
    /\ sweepdata = <<>>
    /\ InitRest

NextFeatures == read_features

SpecFeatures == InitFeatures /\ [][NextFeatures]_vars

\* a version as one number, for versions with minor and revision below 100
Rank(v) == v.major * 10000 + v.minor * 100 + v.revision

\* C1: after read_features the sweep method and the scan features follow
\* the threshold table: from 0.7.1 on, scan_mask with "Scan mask command"
\* and without "Scan command"; from 0.2.0 up to but not including 0.7.1,
\* scan with "Scan command"; below 0.2.0, still sweep with neither feature.
C1_ThresholdTable ==
    call.op = "read_features" =>
        /\ Rank(version) >= 701 =>
              /\ sweep_method = "scan_mask"
              /\ "Scan mask command" \in features
              /\ "Scan command" \notin features
        /\ (Rank(version) >= 200 /\ Rank(version) < 701) =>
              /\ sweep_method = "scan"
              /\ "Scan command" \in features
              /\ "Scan mask command" \notin features
        /\ Rank(version) < 200 =>
              /\ sweep_method = "sweep"
              /\ features \cap {"Scan command", "Scan mask command"} = {}

\* read_features has run on the boundary version 0.7.1
C1_Witness ==
    /\ call.op = "read_features"
    /\ Rank(version) = 701
    /\ sweep_method = "scan_mask"

\* ---------------------------------------------------------- channel data
IsReadValues(c, value) == c.op = "readValues" /\ c.arg = <<value>>

Seconds(pairs) == [i \in 1..Len(pairs) |-> pairs[i][2]]

\* C2: under scan_mask every readValues("data 1"), and so every one that no
\* "data 0" read precedes since the last setSweep or since construction,
\* returns without raising, hands no command to the executor and writes
\* none, and returns the second members of the pairs the most recent
\* "data 0" read cached (none if there was no such read), whatever calls
\* came in between.
C2_StaleRead ==
    (IsReadValues(call, "data 1") /\ sweep_method = "scan_mask") =>
        /\ call.ret = "list"
        /\ call.exc = "none"
        /\ call.issued = <<>>
        /\ call.written = <<>>
        /\ call.result = Seconds(lastPairs)

\* "data 1" read straight after a setSweep, pairs of the cycle before it
\* still cached
C2_Witness ==
    /\ IsReadValues(call, "data 1")
    /\ sweep_method = "scan_mask"
    /\ call.prev.op = "setSweep"
    /\ Len(call.result) = 2

\* the two fields of line i that make channel k of a response
Fields(lines, i, k) ==
    LET tok == split(lines[i])
    IN IF k = 0 THEN JoinPair(tok[1], tok[2]) ELSE JoinPair(tok[3], tok[4])

PrevData0Ok(c) == c.prev.op = "readValues" /\ c.prev.arg = <<"data 0">> /\ c.prev.ret = "list"

\* C3: under scan_mask a successful readValues("data 0") returns, for each
\* response line of its scan command and in the order of the lines, the
\* first two fields joined by a space; a readValues("data 1") that follows
\* it returns as many elements, the third and fourth fields of those lines.
C3_ChannelPairs ==
    /\ (IsReadValues(call, "data 0") /\ call.ret = "list") =>
          /\ Len(call.result) = Len(call.resp)
          /\ \A i \in 1..Len(call.resp) : call.result[i] = Fields(call.resp, i, 0)
    /\ (IsReadValues(call, "data 1") /\ PrevData0Ok(call)) =>
          /\ Len(call.result) = Len(call.prev.resp)
          /\ \A i \in 1..Len(call.prev.resp) :
                call.result[i] = Fields(call.prev.resp, i, 1)

\* "data 1" straight after a "data 0" that read "a b c d" and then
\* "e d  c b a ": the values are "c d" and "c b"
C3_Witness ==
    /\ IsReadValues(call, "data 1")
    /\ PrevData0Ok(call)
    /\ call.prev.resp = <<Line4, Line5>>
    /\ call.result = << <<"c", SP, "d">>, <<"c", SP, "b">> >>

\* a step that is a scan-mask readValues("data 0")
Data0Step ==
    /\ sweep_method = "scan_mask"
    /\ MainIdle
    /\ IsReadValues(call', "data 0")
    /\ connected' = connected

Malformed(lines) == \E i \in 1..Len(lines) : Len(split(lines[i])) # 4

\* C4: a scan-mask readValues("data 0") whose response has a line that does
\* not split into exactly four fields fails with a ProtocolError and leaves
\* the cache as it was before the call.
C4_MalformedLine ==
    [][(Data0Step /\ Malformed(call'.resp)) =>
          /\ call'.ret = "raise"
          /\ call'.exc = "ProtocolError"
          /\ sweepdata' = sweepdata]_vars

\* ---------------------------------------------------------------- capture
LastEvent(t) == IF trace[t] = <<>> THEN "none" ELSE trace[t][Len(trace[t])]

Occurs(t, e) == \E i \in 1..Len(trace[t]) : trace[t][i] = e

\* C5: whenever a capture has just released the interface lock, on whatever
\* path, the interface timeout is the one the capture started with, and a
\* capture that widened the timeout restored it before the release.
C5_TimeoutRestored ==
    \A t \in Threads :
        LastEvent(t) = "release" =>
            /\ timeout = entry[t]
            /\ Occurs(t, "widen") => Occurs(t, "restore")

\* C6: no getScreenshot ends by raising, and one whose payload read failed
\* or came back short of width * height * 2 bytes ends with a blank frame.
C6_BlankOnFailure ==
    \A t \in Threads :
        /\ shot[t].kind # "raised"
        /\ (pc[t] = "idle" /\ Occurs(t, "widen") /\ image[t].n # FrameBytes) =>
              shot[t].kind = "blank"

\* ------------------------------------------------------------ frequencies
\* C7: under scan_mask with datapoints = 1, readFrequencies returns the list
\* holding start alone and raises nothing.
C7_SinglePoint ==
    (call.op = "readFrequencies" /\ sweep_method = "scan_mask" /\ datapoints = 1) =>
        /\ call.ret = "list"
        /\ call.exc = "none"
        /\ call.result = <<start>>

\* a session under scan_mask holding any of the frequency cases;
\* readFrequencies alone
InitFreq ==
    /\ version = Version(0, 7, 1)
    /\ features = {"Scan mask command"}
    /\ sweep_method = "scan_mask"
    /\ \E x \in FreqCases : start = x[1] /\ stop = x[2] /\ datapoints = x[3]
    /\ sweepdata = <<>>
    /\ InitRest

NextFreq == readFrequencies

SpecFreq == InitFreq /\ [][NextFreq]_vars

\* r is the integer nearest to num / den (den > 0), a tie going to the even
\* one: the exact start + i * (stop - start) / (datapoints - 1), rounded
ExactRound(r, num, den) ==
    \/ 2 * Abs(r * den - num) < den
    \/ 2 * Abs(r * den - num) = den /\ r % 2 = 0

\* r is an integer nearest to num / den, either of the two on a tie
Nearest(r, num, den) == 2 * Abs(r * den - num) <= den

ScanMaskList == call.op = "readFrequencies" /\ sweep_method = "scan_mask" /\ datapoints >= 2

\* C8 as stated: under scan_mask with datapoints >= 2, readFrequencies
\* writes no command and returns datapoints integers, element i being the
\* exact start + i * (stop - start) / (datapoints - 1) rounded to the
\* nearest integer with ties to even.
C8_ExactTiesToEven ==
    ScanMaskList =>
        /\ call.written = <<>>
        /\ call.ret = "list"
        /\ Len(call.result) = datapoints
        /\ \A k \in 1..datapoints :
              ExactRound(call.result[k],
                         (datapoints - 1) * start + (k - 1) * (stop - start),
                         datapoints - 1)

\* C8: under scan_mask with datapoints >= 2, readFrequencies hands no
\* command to the executor and writes none, and returns datapoints
\* integers: element i is an integer nearest to the exact
\* start + i * (stop - start) / (datapoints - 1), either neighbour where the
\* exact value lies halfway; element 0 is start and the last element is
\* stop; start = 1000, stop = 2000, datapoints = 3 gives 1000, 1500, 2000.
C8_NearestInteger ==
    ScanMaskList =>
        /\ call.issued = <<>>
        /\ call.written = <<>>
        /\ call.ret = "list"
        /\ call.exc = "none"
        /\ Len(call.result) = datapoints
        /\ \A k \in 1..datapoints :
              Nearest(call.result[k],
                      (datapoints - 1) * start + (k - 1) * (stop - start),
                      datapoints - 1)
        /\ call.result[1] = start
        /\ call.result[datapoints] = stop
        /\ (start = 1000 /\ stop = 2000 /\ datapoints = 3) =>
              call.result = <<1000, 1500, 2000>>

\* readFrequencies has answered for 0..29 in 15 points, where the exact
\* element 7 is 14.5 and the returned one is 15
C8_Witness ==
    /\ ScanMaskList
    /\ start = 0 /\ stop = 29 /\ datapoints = 15
    /\ call.result[8] = 15

\* ----------------------------------------------------------- pixel decode
FullTrace == <<"acquire", "drain", "write", "readline", "widen", "read",
               "restore", "release", "restore">>

\* a capture that has read a whole frame, whatever 16-bit value its pixels
\* hold, about to unpack and decode it
InitDecode ==
    /\ version = Version(0, 7, 1)
    /\ features = {}
    /\ sweep_method = "sweep"
    /\ start = InitStart
    /\ stop = InitStop
    /\ datapoints = MaxPoints
    /\ sweepdata = <<>>
    /\ connected = TRUE
    /\ timeout \in SerialTimeouts
    /\ lock = 0
    /\ pc = [t \in Threads |-> IF t = MainThread THEN "L60" ELSE "idle"]
    /\ saved = [t \in Threads |-> IF t = MainThread THEN timeout ELSE 0]
    /\ entry = [t \in Threads |-> IF t = MainThread THEN timeout ELSE 0]
    /\ \E hi \in 0..255, lo \in 0..255 :
          image = [t \in Threads |-> IF t = MainThread
                                     THEN [n |-> FrameBytes, hi |-> hi, lo |-> lo]
                                     ELSE NoImage]
    /\ shot = [t \in Threads |-> NoShot]
    /\ trace = [t \in Threads |-> IF t = MainThread THEN FullTrace ELSE <<>>]
    /\ call = NoCall
    /\ lastPairs = <<>>

NextDecode == L60(MainThread)

SpecDecode == InitDecode /\ [][NextDecode]_vars

Pixel(t) == UnpackH(image[t].hi, image[t].lo)

\* C9: a decoded pixel is a 32-bit value whose bytes are 0xFF, the five red
\* bits of the payload value times 8, its six green bits times 4 and its
\* five blue bits times 8, which is the sum of the formula without any
\* carry between the fields or out of 32 bits; 0xF800 gives 0xFFF80000,
\* 0x07E0 gives 0xFF00FC00 and 0x001F gives 0xFF0000F8.
C9_PixelDecode ==
    \A t \in Threads :
        shot[t].kind = "pixmap" =>
            LET px == Pixel(t)
                a == shot[t].argb
            IN /\ a.hi \in 0..(Half - 1)
               /\ a.lo \in 0..(Half - 1)
               /\ Bytes32(a) = <<255, 8 * (px \div 2048), 4 * ((px \div 32) % 64),
                                 8 * (px % 32)>>
               /\ px = 63488 => a = U32(65528, 0)
               /\ px = 2016 => a = U32(65280, 64512)
               /\ px = 31 => a = U32(65280, 248)

\* a frame of 0xFFFF pixels has been decoded
C9_Witness ==
    /\ shot[MainThread].kind = "pixmap"
    /\ Pixel(MainThread) = 65535
    /\ shot[MainThread].argb = U32(65528, 64760)

\* ---------------------------------------------------------------- setSweep
\* C10: after setSweep(s, e) the stored range is s, e, and the call has
\* handed the executor exactly the command of the active method, sweep s e
\* datapoints under sweep, scan s e datapoints under scan, none under
\* scan_mask; that command is the one thing written unless the executor
\* fails before writing.
C10_SetSweepCommand ==
    call.op = "setSweep" =>
        /\ start = call.arg[1]
        /\ stop = call.arg[2]
        /\ sweep_method = "sweep" =>
              call.issued = << <<"sweep", start, stop, datapoints>> >>
        /\ sweep_method = "scan" =>
              call.issued = << <<"scan", start, stop, datapoints>> >>
        /\ sweep_method = "scan_mask" =>
              call.issued = <<>> /\ call.written = <<>> /\ call.exc = "none"
        /\ call.written \in {<<>>, call.issued}
        /\ call.exc = "none" => call.written = call.issued

\* setSweep(2000, 1000) under scan has written its scan command
C10_Witness ==
    /\ call.op = "setSweep"
    /\ sweep_method = "scan"
    /\ call.written = << <<"scan", 2000, 1000, datapoints>> >>
    /\ start = 2000 /\ stop = 1000

\* ------------------------------------------------------------ resetSweep
IsPrefix(p, q) == Len(p) <= Len(q) /\ \A i \in 1..Len(p) : p[i] = q[i]

ResetExchange(s, e, n) ==
    << <<"write", <<"sweep", s, e, n>> >>, <<"drained", <<"sweep", s, e, n>> >>,
       <<"write", <<"resume">> >>, <<"drained", <<"resume">> >> >>

\* C11: under every sweep method, resetSweep(s, e) that returns has written
\* sweep s e datapoints, read its response to the end, then written resume
\* and read its response to the end, in that order; one that raises has
\* done an initial part of that sequence and nothing else.
C11_ResetSequence ==
    call.op = "resetSweep" =>
        LET full == ResetExchange(call.arg[1], call.arg[2], datapoints)
        IN /\ IsPrefix(call.log, full)
           /\ call.exc = "none" =>
                 /\ call.log = full
                 /\ call.written = << <<"sweep", call.arg[1], call.arg[2], datapoints>>,
                                      <<"resume">> >>

\* resetSweep(2000, 1000) under scan_mask has done both exchanges
C11_Witness ==
    /\ call.op = "resetSweep"
    /\ sweep_method = "scan_mask"
    /\ call.arg = <<2000, 1000>>
    /\ call.exc = "none"
    /\ Len(call.log) = 4

\* ---------------------------------------------------------- capture order
\* C12: a getScreenshot that returns a picture has acquired the lock,
\* drained the input, written the capture command, read one line, widened
\* the timeout, read the payload in one read and restored the timeout, in
\* this order and before releasing the lock; the timeout is 4 while the
\* payload read is pending; the payload is 153600 bytes and the picture
\* 76800 pixels.
C12_CaptureOrder ==
    \A t \in Threads :
        /\ shot[t].kind = "pixmap" =>
              /\ trace[t] = <<"acquire", "drain", "write", "readline", "widen",
                              "read", "restore", "release", "restore">>
              /\ image[t].n = 153600
              /\ shot[t].pixels = 76800
        /\ pc[t] = "L56" => (timeout = 4 /\ lock = t)
        /\ pc[t] \in {"L51", "L52", "L53", "L54", "L55", "L56", "L58", "exit"} => lock = t

\* a capture has returned its picture
C12_Witness ==
    /\ shot[MainThread].kind = "pixmap"
    /\ pc[MainThread] = "idle"
    /\ Len(trace[MainThread]) = 9
    /\ shot[MainThread].pixels = FramePixels

\* ----------------------------------------------------------- frame effects
\* a step that is a call of read_features
FeaturesStep == MainIdle /\ call'.op = "read_features" /\ connected' = connected

\* C13: the sweep method and the feature set change only in a step that is
\* a read_features call: no setSweep, resetSweep, readFrequencies,
\* readValues or capture step changes either.
C13_MethodFixed ==
    [][(sweep_method' # sweep_method \/ features' # features) => FeaturesStep]_vars

\* read_features chose scan_mask, and a resetSweep and a readValues later
\* the method is still scan_mask
C13_Witness ==
    /\ sweep_method = "scan_mask"
    /\ features = {"Scan mask command"}
    /\ IsReadValues(call, "data 1")
    /\ call.prev.op = "resetSweep"

\* C14: in every reachable state the stored range is ordered, start <= stop,
\* and datapoints is at least 1.
C14_RangeOrdered == start <= stop /\ datapoints >= 1

\* C15: under scan_mask, after a readValues("data 0") that returned, the
\* cache holds exactly datapoints pairs and the returned list has
\* datapoints elements, however many lines the device sent.
C15_DatapointsPairs ==
    (IsReadValues(call, "data 0") /\ sweep_method = "scan_mask" /\ call.ret = "list") =>
        /\ Len(sweepdata) = datapoints
        /\ Len(call.result) = datapoints

\* C16: the cache changes only in a step that is a readValues("data 0")
\* under scan_mask: setSweep, resetSweep, readFrequencies, read_features,
\* the capture, readValues with another selector and every readValues
\* under sweep or scan leave it as it was.
C16_CacheWriter == [][sweepdata' # sweepdata => Data0Step]_vars

\* two pairs cached, still there after a later resetSweep
C16_Witness ==
    /\ Len(sweepdata) = 2
    /\ call.op = "resetSweep"
    /\ call.exc = "none"

\* ------------------------------------------------------ concurrent captures
\* several threads of the application call getScreenshot on the one
\* interface while the main thread also sets the sweep; the driver under
\* the sweep method, as constructed
InitThreads ==
    /\ Init
    /\ version = Version(0, 1, 2)
    /\ datapoints = 1
    /\ timeout = 1

NextThreads ==
    \/ setSweep(InitStart, InitStop)
    \/ \E t \in Threads :
          \/ getScreenshot(t)
          \/ L49(t)
          \/ L50(t)
          \/ L51(t)
          \/ L52(t)
          \/ L53(t)
          \/ L54(t)
          \/ L55(t)
          \/ L56(t)
          \/ L58(t)
          \/ ExitLock(t)
          \/ L59(t)
          \/ L60(t)
          \/ Except(t)

SpecThreads == InitThreads /\ [][NextThreads]_vars

\* thread t is inside its capture exchange: the lock taken, the payload
\* read not yet returned
InExchange(t) == pc[t] \in {"L51", "L52", "L53", "L54", "L55", "L56"}

\* a step in which the capture of thread u calls the interface
IoStep(u) == pc[u] \in {"L51", "L53", "L54", "L56"} /\ pc'[u] # pc[u]

\* a step in which a driver call of the main thread writes a command
DriverIo == pc' = pc /\ connected /\ connected' /\ call'.written # <<>>

\* C17: while a capture is between taking the lock and the return of its
\* payload read it holds the lock, and no step of another thread in that
\* time is an interface call of another capture or a command exchange of
\* the driver.
C17_ExclusiveExchange ==
    [][\A t \in Threads :
          InExchange(t) =>
              /\ lock = t
              /\ ~DriverIo
              /\ \A u \in Threads \ {t} : ~IoStep(u)]_vars

\* the main thread's payload read is pending while another thread waits
\* for the lock with a capture of its own
C17_Witness ==
    /\ pc[MainThread] = "L56"
    /\ \E u \in Threads \ {MainThread} : pc[u] = "L50" /\ shot[u].kind = "none"

\* C18: whenever the payload read of a capture is pending, the interface
\* timeout is 4, whatever the other threads' captures have done since this
\* capture widened it.
C18_WidenedWhileReading ==
    \A t \in Threads : pc[t] = "L56" => timeout = CaptureTimeout

\* ------------------------------------------------- resetSweep and the range
\* a step that is a driver call of the main thread named op
CallStep(op) == MainIdle /\ pc' = pc /\ connected' = connected /\ call'.op = op

RangeFrame ==
    /\ CallStep("resetSweep") =>
          (start' = start /\ stop' = stop /\ sweep_method' = sweep_method
              /\ sweepdata' = sweepdata)
    /\ (start' # start \/ stop' # stop) =>
          (CallStep("setSweep") /\ call'.arg = <<start', stop'>>)

\* C19: a resetSweep step leaves start, stop, the sweep method and the
\* cache as they were, and start and stop change only in a setSweep step,
\* which stores its arguments; so the range a later scan-mask read uses is
\* that of the last setSweep, or 27000000..30000000: readValues("data 0")
\* issues scan start stop datapoints 0b110 and readFrequencies returns a
\* list from start to stop.
C19_ResetKeepsRange ==
    /\ [][RangeFrame]_vars
    /\ [](start = 27000000 \/ <<start, stop>> \in SweepRanges)
    /\ []((IsReadValues(call, "data 0") /\ sweep_method = "scan_mask") =>
             call.issued = << <<"scan", start, stop, datapoints, "0b110">> >>)
    /\ []((call.op = "readFrequencies" /\ call.ret = "list") =>
             (call.result[1] = start /\ call.result[datapoints] = stop))

\* resetSweep(2000, 1000) has run under scan_mask with two pairs cached and
\* no setSweep before it: the range is still the one of construction
C19_Witness ==
    /\ call.op = "resetSweep"
    /\ call.arg = <<2000, 1000>>
    /\ call.exc = "none"
    /\ sweep_method = "scan_mask"
    /\ start = 27000000 /\ stop = 30000000
    /\ Len(sweepdata) = 2

\* ------------------------------------------------ screenshot, not connected
\* a step that is a getScreenshot call of the main thread on a closed port
ShotStepOffline == MainIdle /\ ~connected /\ ~connected' /\ call'.op = "none"

\* C20: getScreenshot on a device that is not connected returns a blank
\* frame at once: it raises nothing, does not take the lock, makes no
\* interface call and leaves the timeout alone.
C20_OfflineBlank ==
    [][ShotStepOffline =>
          /\ shot'[MainThread] = [NoShot EXCEPT !.kind = "blank"]
          /\ pc'[MainThread] = "idle"
          /\ trace'[MainThread] = <<>>
          /\ lock' = lock
          /\ timeout' = timeout]_vars

\* a blank frame returned on a closed port, no interface event behind it
C20_Witness ==
    /\ ~connected
    /\ pc[MainThread] = "idle"
    /\ shot[MainThread].kind = "blank"
    /\ trace[MainThread] = <<>>
    /\ lock = 0

====
